---- MODULE Spec2Model ----
(***************************************************************************)
(* Sparse bit set codec of the int-set crate (sparse_bit_set.rs): the      *)
(* encoder (to_sparse_bit_set, to_sparse_bit_set_with_bf, create_layer,    *)
(* commit_current_node), the decoder (from_sparse_bit_set,                 *)
(* decode_sparse_bit_set_nodes) and BranchFactor.                          *)
(*                                                                         *)
(* Representation.  A u32 is the pair <<hi, lo>> of its two 16-bit halves  *)
(* (the model checker's integers stop at 2^31 - 1), with the checked and   *)
(* wrapping arithmetic the code uses written out on the halves.  A node's  *)
(* bit mask (a u32) is the set of the positions of its set bits.  An       *)
(* IntSet<u32> handed to the encoder is the set of its members; the set    *)
(* the decoder builds is kept as the set of the inclusive ranges inserted  *)
(* into it (insert(v) inserts the range <<v, v>>).                         *)
(***************************************************************************)
EXTENDS Integers, Sequences, FiniteSets, TLC

VARIABLES
    pc,               \* position of the program
    set,              \* the IntSet<u32> being encoded
    mode,             \* 2, 4, 8, 32: to_sparse_bit_set_with_bf::<mode>; 0: to_sparse_bit_set
    bf,               \* branch_factor of the running encoding
    max_value,        \* set.last(), or None
    height,           \* the encoder's height counter / tree_height_for's result
    indices,          \* to_sparse_bit_set_with_bf: indices
    filled_indices,   \* to_sparse_bit_set_with_bf: filled_indices
    nodes,            \* to_sparse_bit_set_with_bf: nodes
    state,            \* create_layer: CreateLayerState and the values left to visit
    os,               \* to_sparse_bit_set_with_bf: os, the OutputBitStream
    visited,          \* how many nodes the loop over nodes.iter().rev() has visited
    candidates,       \* to_sparse_bit_set: candidates
    forced,           \* bytes returned by the forced encoding of this run, or None
    encoded,          \* bytes returned by the last encoding, before any truncation
    data,             \* the bytes handed to from_sparse_bit_set
    overflow_checks,  \* whether the decoding build panics on integer overflow
    dec,              \* decode_sparse_bit_set_nodes: height, BF, bits, queue
    out,              \* decode_sparse_bit_set_nodes: out
    result,           \* what from_sparse_bit_set returned
    prior             \* what it returned for the buffer the bytes in data extend, or none

vars == <<pc, set, mode, bf, max_value, height, indices, filled_indices, nodes,
          state, os, visited, candidates, forced, encoded, data, overflow_checks, dec, out,
          result, prior>>

\* Option: None is the empty tuple; Some(x) of a record is the one-element tuple
None == <<>>

Some(x) == <<x>>

-----------------------------------------------------------------------------
(* u32 arithmetic on 16-bit halves *)

Limb == 2^16

U32(n) == <<n \div Limb, n % Limb>>

u32_MAX == <<Limb - 1, Limb - 1>>

Zero == U32(0)

Lt(a, b) == a[1] < b[1] \/ (a[1] = b[1] /\ a[2] < b[2])

Le(a, b) == a = b \/ Lt(a, b)

\* a >> k, for 0 <= k <= 16
Shr(a, k) == <<a[1] \div 2^k, ((a[1] % 2^k) * 2^(16 - k)) + (a[2] \div 2^k)>>

\* a / n and a % n (the latter as an integer), for an integer 0 < n < 2^15
Div(a, n) == <<a[1] \div n, (((a[1] % n) * Limb) + a[2]) \div n>>

Mod(a, n) == (((a[1] % n) * Limb) + a[2]) % n

\* a + b: v is the wrapped sum, of tells whether it overflowed
Add(a, b) ==
    LET lo == a[2] + b[2]
        hi == a[1] + b[1] + (lo \div Limb)
    IN  [v |-> <<hi % Limb, lo % Limb>>, of |-> hi >= Limb]

\* a - b: v is the wrapped difference, of tells whether it underflowed
Sub(a, b) ==
    LET lo == a[2] - b[2]
        br == IF lo < 0 THEN 1 ELSE 0
        hi == a[1] - b[1] - br
    IN  [v |-> <<(hi + Limb) % Limb, (lo + Limb) % Limb>>, of |-> hi < 0]

\* a * n for an integer 0 <= n <= 2^15
Mul(a, n) ==
    LET lo == a[2] * n
        hi == (a[1] * n) + (lo \div Limb)
    IN  [v |-> <<hi % Limb, lo % Limb>>, of |-> hi >= Limb]

\* (b as u32).pow(exp) for 2 <= b <= 32: v is b^exp mod 2^32, of tells whether
\* b^exp overflows a u32 (pow multiplies no further than its result).  Three
\* factors are taken per round to keep the evaluation shallow, and the power of
\* the round before is bound as a value, so that it is computed once.
RECURSIVE Pow(_, _)
Pow(b, exp) ==
    IF exp <= 3
    THEN [v |-> U32(b^exp), of |-> FALSE]
    ELSE CHOOSE r \in {[v |-> m.v, of |-> p.of \/ m.of] :
                          <<p, m>> \in {<<q, Mul(q.v, b^3)>> : q \in {Pow(b, exp - 3)}}} : TRUE

\* the largest / smallest member of a non-empty set of u32
Last(s) == CHOOSE x \in s : \A y \in s : Le(y, x)

First(s) == CHOOSE x \in s : \A y \in s : Le(x, y)

\* the u32 values lo ..= lo + n - 1 (no wrap-around), n >= 0 an integer
Run(lo, n) == {Add(lo, U32(i)).v : i \in 0 .. n - 1}

-----------------------------------------------------------------------------
(* BranchFactor: the enum's variants are named by their value *)

BranchFactors == {2, 4, 8, 32}

value(branch_factor) == branch_factor

node_size_log2(branch_factor) ==
    CASE branch_factor = 2 -> 1
      [] branch_factor = 4 -> 2
      [] branch_factor = 8 -> 3
      [] branch_factor = 32 -> 5

byte_mask(branch_factor) ==
    CASE branch_factor = 2 -> 3
      [] branch_factor = 4 -> 15
      [] branch_factor = 8 -> 255
      [] branch_factor = 32 -> 255

\* a plausible slip: a mask of node_size_log2() bits
u32_mask_log2(branch_factor) == 0 .. node_size_log2(branch_factor) - 1

\* the positions of the set bits of u32_mask()
u32_mask(branch_factor) ==
    CASE branch_factor = 2 -> 0 .. 1
      [] branch_factor = 4 -> 0 .. 3
      [] branch_factor = 8 -> 0 .. 7
      [] branch_factor = 32 -> 0 .. 31

\* a plausible slip: the break test made before the first shift
RECURSIVE tree_height_loop_test_first(_, _, _)
tree_height_loop_test_first(branch_factor, h, m) ==
    IF m = Zero
    THEN h
    ELSE tree_height_loop_test_first(branch_factor, h + 1,
                                     Shr(m, node_size_log2(branch_factor)))

\* the loop of tree_height_for: h and m are height and max_value on entry
RECURSIVE tree_height_loop(_, _, _)
tree_height_loop(branch_factor, h, m) ==
    LET h1 == h + 1
        m1 == Shr(m, node_size_log2(branch_factor))
    IN  IF m1 = Zero THEN h1 ELSE tree_height_loop(branch_factor, h1, m1)

\* a plausible slip: the first shift made before the loop and not counted
tree_height_for_skip_first(branch_factor, m) ==
    tree_height_loop(branch_factor, 0, Shr(m, node_size_log2(branch_factor)))

tree_height_for(branch_factor, m) == tree_height_loop(branch_factor, 0, m)

-----------------------------------------------------------------------------
(* States shared by the specifications *)

\* IntSet::<u32>::all() and a set given by its members, where contains() is asked
All == [all |-> TRUE, members |-> {}]

Only(s) == [all |-> FALSE, members |-> s]

contains(s, v) == s.all \/ v \in s.members

insert(s, v) == IF s.all THEN s ELSE Only(s.members \cup {v})

NoState ==
    [upper_indices |-> {}, upper_filled_indices |-> Only({}), current_node |-> None,
     current_node_filled_bits |-> {}, child_count |-> 0, nodes_init_length |-> 0,
     values |-> {}]

NoStream == [data |-> <<>>, sub_index |-> 0]

NoDec == [height |-> 0, BF |-> 2, byte_index |-> 1, sub_index |-> 0, queue |-> <<>>]

\* what from_sparse_bit_set returned: Ok(set), Err(DecodingError), or a panic
NoResult == [tag |-> "None", set |-> {}]

Ok(s) == [tag |-> "Ok", set |-> s]

Err == [tag |-> "Err", set |-> {}]

Panic == [tag |-> "Panic", set |-> {}]

Idle ==
    /\ indices = {}
    /\ filled_indices = Only({})
    /\ nodes = <<>>
    /\ state = NoState
    /\ os = NoStream
    /\ visited = 0
    /\ candidates = <<>>
    /\ forced = None
    /\ encoded = None
    /\ data = <<>>
    /\ overflow_checks = TRUE
    /\ dec = NoDec
    /\ out = {}
    /\ result = NoResult
    /\ prior = NoResult

-----------------------------------------------------------------------------
(* tree_height_for on its own *)

Pow2(e) == IF e < 16 THEN <<0, 2^e>> ELSE <<2^(e - 16), 0>>

HeightInputs ==
    {Pow2(e) : e \in 0 .. 31} \cup {Sub(Pow2(e), U32(1)).v : e \in 0 .. 31}
        \cup {u32_MAX, U32(117), U32(1048576 + 5), U32(32767 + 3)}

InitHeight ==
    /\ pc = "tree_height_for"
    /\ bf \in BranchFactors
    /\ max_value \in HeightInputs
    /\ height = 0
    /\ set = {}
    /\ mode = bf
    /\ Idle

TreeHeightFor ==
    /\ pc = "tree_height_for"
    /\ height' = tree_height_for(bf, max_value)
    /\ pc' = "tree_height_returned"
    /\ UNCHANGED <<prior, set, mode, bf, max_value, indices, filled_indices, nodes, state,
                   os, visited, candidates, forced, encoded, data, overflow_checks, dec, out,
                   result>>

NextHeight == TreeHeightFor

SpecHeight == InitHeight /\ [][NextHeight]_vars

\* whether bf^h > m, from the positions of the bits: bf^h = 2^(Log2(bf) * h)
Log2(n) == CHOOSE k \in 0 .. 5 : 2^k = n

PowExceeds(b, h, m) == Log2(b) * h >= 32 \/ Lt(m, Pow2(Log2(b) * h))

\* C8: tree_height_for(max_value) is the smallest positive h with BF^h > max_value;
\* it is 1 for max_value = 0 and never 0.
C8_TreeHeight ==
    pc = "tree_height_returned" =>
        /\ height >= 1
        /\ PowExceeds(bf, height, max_value)
        /\ \A h \in 1 .. height - 1 : ~PowExceeds(bf, h, max_value)
        /\ (max_value = Zero => height = 1)

C8_Witness ==
    /\ pc = "tree_height_returned"
    /\ bf = 32
    /\ max_value = U32(1048576)
    /\ height = 5

-----------------------------------------------------------------------------
(* OutputBitStream (output_bit_stream.rs): the writer behind the byte        *)
(* vectors the tests of sparse_bit_set.rs expect.  The header byte holds the *)
(* height in bits 2..6 and the branch factor selector in bits 0..1; a node   *)
(* takes branch-factor many bits, the first node of a byte in its low bits.  *)

MAX_HEIGHT == 31

selector(branch_factor) ==
    CASE branch_factor = 2 -> 0
      [] branch_factor = 4 -> 1
      [] branch_factor = 8 -> 2
      [] branch_factor = 32 -> 3

nodes_per_byte(branch_factor) ==
    CASE branch_factor = 2 -> 4
      [] branch_factor = 4 -> 2
      [] branch_factor = 8 -> 1
      [] branch_factor = 32 -> 1

bytes_per_node(branch_factor) == IF branch_factor = 32 THEN 4 ELSE 1

write_header(branch_factor, h) == ((h % 32) * 4) + selector(branch_factor)

\* OutputBitStream::new, for a height it accepts
new(branch_factor, h) ==
    [data |-> <<write_header(branch_factor, h)>>, sub_index |-> 0]

\* (bits >> (byte_index * 8)) & 0xff, bits given by the positions of its set bits
ByteOf(bits, byte_index) ==
    LET f[i \in 0 .. 8] ==
            IF i = 8 THEN 0
            ELSE (IF (byte_index * 8) + i \in bits THEN 2^i ELSE 0) + f[i + 1]
    IN  f[0]

\* one round of write_node's loop over the bytes of a node
write_node_byte(o, bits, byte_index, branch_factor) ==
    LET fresh == nodes_per_byte(branch_factor) = 1 \/ o.sub_index = 0
        d == IF fresh THEN Append(o.data, 0) ELSE o.data
        b == ByteOf(bits, byte_index) % (byte_mask(branch_factor) + 1)
        shifted == (b * 2^(o.sub_index * value(branch_factor))) % 256
        last == d[Len(d)]
        \* |= on bits that are still clear
        merged == last + shifted
    IN  [data |-> [d EXCEPT ![Len(d)] = merged],
         sub_index |-> IF nodes_per_byte(branch_factor) > 1
                       THEN (o.sub_index + 1) % nodes_per_byte(branch_factor)
                       ELSE o.sub_index]

RECURSIVE write_node_from(_, _, _, _)
write_node_from(o, bits, byte_index, branch_factor) ==
    IF byte_index = bytes_per_node(branch_factor)
    THEN o
    ELSE write_node_from(write_node_byte(o, bits, byte_index, branch_factor),
                         bits, byte_index + 1, branch_factor)

write_node(o, bits, branch_factor) == write_node_from(o, bits, 0, branch_factor)

into_bytes(o) == o.data

-----------------------------------------------------------------------------
(* The encoder: create_layer and commit_current_node *)

Node(bits, parent_index, node_type) ==
    [bits |-> bits, parent_index |-> parent_index, node_type |-> node_type]

\* a plausible slip: the children of a filled node are left as they are
SkipChildren_none(nds, st, node, branch_factor) == nds

\* a plausible slip: every earlier node scanned, not only the previous layer
SkipChildren_all_layers(nds, st, node, branch_factor) ==
    LET children_end_index == st.nodes_init_length
        lo == Mul(node.parent_index, value(branch_factor)).v
        hi == Mul(Add(node.parent_index, U32(1)).v, value(branch_factor)).v
    IN  [i \in 1 .. Len(nds) |->
            IF /\ i <= children_end_index
               /\ Le(lo, nds[i].parent_index)
               /\ Lt(nds[i].parent_index, hi)
            THEN [nds[i] EXCEPT !.node_type = "Skip"]
            ELSE nds[i]]

\* a plausible slip: the upper end of the children's indices taken inclusive
SkipChildren_le(nds, st, node, branch_factor) ==
    LET children_start_index ==
            IF st.nodes_init_length >= st.child_count
            THEN st.nodes_init_length - st.child_count ELSE 0
        children_end_index == st.nodes_init_length
        lo == Mul(node.parent_index, value(branch_factor)).v
        hi == Mul(Add(node.parent_index, U32(1)).v, value(branch_factor)).v
    IN  [i \in 1 .. Len(nds) |->
            IF /\ i > children_start_index
               /\ i <= children_end_index
               /\ Le(lo, nds[i].parent_index)
               /\ Le(nds[i].parent_index, hi)
            THEN [nds[i] EXCEPT !.node_type = "Skip"]
            ELSE nds[i]]

\* the children block of commit_current_node with the nodes in range set to Skip
SkipChildren(nds, st, node, branch_factor) ==
    LET children_start_index ==
            IF st.nodes_init_length >= st.child_count
            THEN st.nodes_init_length - st.child_count ELSE 0
        children_end_index == st.nodes_init_length
        lo == Mul(node.parent_index, value(branch_factor)).v
        hi == Mul(Add(node.parent_index, U32(1)).v, value(branch_factor)).v
    IN  [i \in 1 .. Len(nds) |->
            IF /\ i > children_start_index
               /\ i <= children_end_index
               /\ Le(lo, nds[i].parent_index)
               /\ Lt(nds[i].parent_index, hi)
            THEN [nds[i] EXCEPT !.node_type = "Skip"]
            ELSE nds[i]]

\* a plausible slip: the parent index recorded upward only in the other branch
commit_current_node_upper_if_not_filled(st, nds, branch_factor) ==
    IF st.current_node = None
    THEN [state |-> st, nodes |-> nds]
    ELSE LET node == st.current_node[1]
             filled == st.current_node_filled_bits = u32_mask(branch_factor)
             committed == IF filled THEN [node EXCEPT !.node_type = "Filled"] ELSE node
             marked == IF filled /\ st.nodes_init_length >= st.child_count
                       THEN SkipChildren(nds, st, node, branch_factor)
                       ELSE nds
         IN  [state |->
                 [st EXCEPT
                     !.current_node = None,
                     !.upper_indices =
                         IF filled THEN @ ELSE @ \cup {node.parent_index},
                     !.upper_filled_indices =
                         IF filled THEN insert(@, node.parent_index) ELSE @,
                     !.current_node_filled_bits = {}],
              nodes |-> Append(marked, committed)]

\* a plausible slip: the committed node put at the front of the list
commit_current_node_push_front(st, nds, branch_factor) ==
    IF st.current_node = None
    THEN [state |-> st, nodes |-> nds]
    ELSE LET node == st.current_node[1]
             filled == st.current_node_filled_bits = u32_mask(branch_factor)
             committed == IF filled THEN [node EXCEPT !.node_type = "Filled"] ELSE node
             marked == IF filled /\ st.nodes_init_length >= st.child_count
                       THEN SkipChildren(nds, st, node, branch_factor)
                       ELSE nds
         IN  [state |->
                 [st EXCEPT
                     !.current_node = None,
                     !.upper_indices = @ \cup {node.parent_index},
                     !.upper_filled_indices =
                         IF filled THEN insert(@, node.parent_index) ELSE @,
                     !.current_node_filled_bits = {}],
              nodes |-> <<committed>> \o marked]

\* commit_current_node: the state and the node list it leaves
commit_current_node(st, nds, branch_factor) ==
    IF st.current_node = None
    THEN [state |-> st, nodes |-> nds]
    ELSE LET node == st.current_node[1]
             filled == st.current_node_filled_bits = u32_mask(branch_factor)
             committed == IF filled THEN [node EXCEPT !.node_type = "Filled"] ELSE node
             marked == IF filled /\ st.nodes_init_length >= st.child_count
                       THEN SkipChildren(nds, st, node, branch_factor)
                       ELSE nds
         IN  [state |->
                 [st EXCEPT
                     !.current_node = None,
                     !.upper_indices = @ \cup {node.parent_index},
                     !.upper_filled_indices =
                         IF filled THEN insert(@, node.parent_index) ELSE @,
                     !.current_node_filled_bits = {}],
              nodes |-> Append(marked, committed)]

\* a plausible slip: the node in progress kept when the parent index changes
create_layer_value_no_commit(st, nds, filled_values, v, branch_factor) ==
    LET parent_index == Div(v, value(branch_factor))
        current_node ==
            IF st.current_node = None
            THEN Node({}, parent_index, "Standard")
            ELSE st.current_node[1]
        mask == Mod(v, value(branch_factor))
    IN  [state |->
            [st EXCEPT
                !.current_node = Some([current_node EXCEPT !.bits = @ \cup {mask}]),
                !.current_node_filled_bits =
                    IF contains(filled_values, v) THEN @ \cup {mask} ELSE @,
                !.values = @ \ {v}],
         nodes |-> nds]

\* a plausible slip: every value counted as filled, whatever filled_values holds
create_layer_value_all_filled(st, nds, filled_values, v, branch_factor) ==
    LET parent_index == Div(v, value(branch_factor))
        prev_parent_index ==
            IF st.current_node = None THEN parent_index
            ELSE st.current_node[1].parent_index
        c == IF prev_parent_index # parent_index
             THEN commit_current_node(st, nds, branch_factor)
             ELSE [state |-> st, nodes |-> nds]
        current_node ==
            IF c.state.current_node = None
            THEN Node({}, parent_index, "Standard")
            ELSE c.state.current_node[1]
        mask == Mod(v, value(branch_factor))
    IN  [state |->
            [c.state EXCEPT
                !.current_node = Some([current_node EXCEPT !.bits = @ \cup {mask}]),
                !.current_node_filled_bits = @ \cup {mask},
                !.values = @ \ {v}],
         nodes |-> c.nodes]

\* the body of create_layer's loop for the value v
create_layer_value(st, nds, filled_values, v, branch_factor) ==
    LET parent_index == Div(v, value(branch_factor))
        prev_parent_index ==
            IF st.current_node = None THEN parent_index
            ELSE st.current_node[1].parent_index
        c == IF prev_parent_index # parent_index
             THEN commit_current_node(st, nds, branch_factor)
             ELSE [state |-> st, nodes |-> nds]
        current_node ==
            IF c.state.current_node = None
            THEN Node({}, parent_index, "Standard")
            ELSE c.state.current_node[1]
        \* the position of the one bit of mask = 0b1 << (v % branch_factor.value())
        mask == Mod(v, value(branch_factor))
    IN  [state |->
            [c.state EXCEPT
                !.current_node = Some([current_node EXCEPT !.bits = @ \cup {mask}]),
                !.current_node_filled_bits =
                    IF contains(filled_values, v) THEN @ \cup {mask} ELSE @,
                !.values = @ \ {v}],
         nodes |-> c.nodes]

\* a plausible slip: a filled node written with its own bits
write_filled_literal(o, node, branch_factor) ==
    CASE node.node_type = "Standard" -> write_node(o, node.bits, branch_factor)
      [] node.node_type = "Filled" -> write_node(o, node.bits, branch_factor)
      [] node.node_type = "Skip" -> o

\* the body of the loop over nodes.iter().rev() for one node
write(o, node, branch_factor) ==
    CASE node.node_type = "Standard" -> write_node(o, node.bits, branch_factor)
      [] node.node_type = "Filled" -> write_node(o, {}, branch_factor)
      [] node.node_type = "Skip" -> o

-----------------------------------------------------------------------------
(* The sets encoded *)

SmallMax == 4

U32s(ints) == {U32(n) : n \in ints}

Scenarios ==
    { U32s({2, 33, 323}),                      \* spec_example_2
      U32s(0 .. 17),                           \* spec_example_4
      U32s({2, 6}),                            \* encode_one_level
      U32s(0 .. 7),                            \* encode_one_level_filled
      U32s(3 .. 21),                           \* encode_two_level_filled
      U32s({0, 4, 8, 12}),                     \* encode_two_level_not_filled
      U32s({2, 31, 323}),                      \* encode_bf32
      U32s({11, 74, 9358}),                    \* round_trip, find_smallest_bf
      U32s({2 * i : i \in 0 .. 15}),           \* find_smallest_bf
      {U32(1), u32_MAX},                       \* encode_maxu32
      U32s(8 .. 15), U32s(0 .. 15), U32s(0 .. 31), U32s(32 .. 63),
      {Pow2(30)},
      Run(Pow2(30), 8),
      {Sub(Pow2(31), U32(1)).v},
      Run(Sub(u32_MAX, U32(3)).v, 4),
      Run(Sub(u32_MAX, U32(15)).v, 16),
      U32s({0, 4}) \cup Run(Sub(u32_MAX, U32(15)).v, 16),
      U32s({4} \cup (8 .. 15)),             \* a filled node beside an unfilled one, two levels up
      U32s({0} \cup (4 .. 15)) }            \* filled nodes on two levels, as encode_four_level_filled

Sets == {U32s(x) : x \in SUBSET (0 .. SmallMax)} \cup Scenarios

-----------------------------------------------------------------------------
(* The encoder's steps *)

\* a plausible slip: the header of a tree of height 1
empty_encoding_height_one(branch_factor) == into_bytes(new(branch_factor, 1))

\* return OutputBitStream::new(branch_factor, 0).into_bytes(), taken when set.last() is None
empty_encoding(branch_factor) == into_bytes(new(branch_factor, 0))

Init ==
    /\ set \in Sets
    /\ mode \in {0} \cup BranchFactors
    /\ pc = IF mode = 0 THEN "to_sparse_bit_set" ELSE "to_sparse_bit_set_with_bf"
    /\ bf = IF mode = 0 THEN 2 ELSE mode
    /\ max_value = None
    /\ height = 0
    /\ Idle

\* an encoding returns bytes: to the candidates of to_sparse_bit_set, or to the caller
Return(bytes) ==
    IF mode = 0
    THEN /\ candidates' = Append(candidates, bytes)
         /\ pc' = "candidate_done"
         /\ UNCHANGED <<forced, encoded, data>>
    ELSE /\ forced' = bytes
         /\ encoded' = bytes
         /\ data' = bytes
         /\ pc' = "encoded"
         /\ UNCHANGED candidates

\* to_sparse_bit_set_with_bf up to its while loop
ToSparseBitSetWithBf ==
    /\ pc = "to_sparse_bit_set_with_bf"
    /\ IF set = {}
       THEN /\ Return(empty_encoding(bf))
            /\ UNCHANGED <<max_value, height, os, visited, nodes, indices, filled_indices,
                           result>>
       ELSE /\ max_value' = Last(set)
            /\ height' = tree_height_for(bf, Last(set))
            /\ IF height' > MAX_HEIGHT
               THEN \* OutputBitStream::new refuses the height
                    /\ result' = Panic
                    /\ pc' = "done"
                    /\ UNCHANGED <<os, visited, nodes, indices, filled_indices>>
               ELSE /\ os' = new(bf, height')
                    /\ visited' = 0
                    /\ nodes' = <<>>
                    /\ indices' = set
                    /\ filled_indices' = All
                    /\ pc' = "while_height"
                    /\ UNCHANGED result
            /\ UNCHANGED <<candidates, forced, encoded, data>>
    /\ UNCHANGED <<prior, set, mode, bf, state, overflow_checks, dec, out>>

\* create_layer up to its loop
CreateLayer ==
    /\ pc = "while_height"
    /\ height > 0
    /\ state' = [upper_indices |-> {},
                 upper_filled_indices |-> Only({}),
                 current_node |-> None,
                 current_node_filled_bits |-> {},
                 child_count |-> Cardinality(indices),
                 nodes_init_length |-> Len(nodes),
                 values |-> indices]
    /\ pc' = "create_layer"
    /\ UNCHANGED <<prior, set, mode, bf, max_value, height, indices, filled_indices, nodes, os,
                   visited,
                   candidates, forced, encoded, data, overflow_checks, dec, out, result>>

\* one round of for v in values.iter().rev()
CreateLayerValue ==
    /\ pc = "create_layer"
    /\ state.values # {}
    /\ LET r == create_layer_value(state, nodes, filled_indices, Last(state.values), bf)
       IN  /\ state' = r.state
           /\ nodes' = r.nodes
    /\ UNCHANGED <<prior, pc, set, mode, bf, max_value, height, indices, filled_indices, os,
                   visited,
                   candidates, forced, encoded, data, overflow_checks, dec, out, result>>

\* the end of create_layer, and height -= 1
CreateLayerReturn ==
    /\ pc = "create_layer"
    /\ state.values = {}
    /\ LET r == commit_current_node(state, nodes, bf)
       IN  /\ state' = r.state
           /\ nodes' = r.nodes
           /\ indices' = r.state.upper_indices
           /\ filled_indices' = r.state.upper_filled_indices
    /\ height' = height - 1
    /\ pc' = "while_height"
    /\ UNCHANGED <<prior, set, mode, bf, max_value, os, visited, candidates, forced, encoded, data,
                   overflow_checks, dec, out, result>>

\* one round of for node in nodes.iter().rev()
WriteNode ==
    /\ pc = "while_height"
    /\ height = 0
    /\ visited < Len(nodes)
    /\ os' = write(os, nodes[Len(nodes) - visited], bf)
    /\ visited' = visited + 1
    /\ UNCHANGED <<prior, pc, set, mode, bf, max_value, height, indices, filled_indices, nodes,
                   state, candidates, forced, encoded, data, overflow_checks, dec, out,
                   result>>

\* os.into_bytes()
IntoBytes ==
    /\ pc = "while_height"
    /\ height = 0
    /\ visited = Len(nodes)
    /\ Return(into_bytes(os))
    /\ UNCHANGED <<prior, set, mode, bf, max_value, height, indices, filled_indices, nodes, state,
                   os, visited, overflow_checks, dec, out, result>>

-----------------------------------------------------------------------------
(* to_sparse_bit_set *)

NextBranchFactor(branch_factor) ==
    CASE branch_factor = 2 -> 4
      [] branch_factor = 4 -> 8
      [] branch_factor = 8 -> 32

\* a plausible slip: the comparison turned around
feasible_gt(branch_factor, m) == tree_height_for(branch_factor, m) > MAX_HEIGHT

\* the test in front of each candidates.push
feasible(branch_factor, m) == tree_height_for(branch_factor, m) < MAX_HEIGHT

\* candidates.into_iter().min_by_key(|f| f.len()): the first of the shortest
min_by_key_len(cs) ==
    cs[CHOOSE i \in 1 .. Len(cs) :
          \A j \in 1 .. Len(cs) :
              Len(cs[i]) < Len(cs[j]) \/ (Len(cs[i]) = Len(cs[j]) /\ i <= j)]

ToSparseBitSet ==
    /\ pc = "to_sparse_bit_set"
    /\ candidates' = <<>>
    /\ IF set = {}
       THEN /\ encoded' = empty_encoding(2)
            /\ data' = encoded'
            /\ pc' = "encoded"
            /\ UNCHANGED <<max_value, bf>>
       ELSE /\ max_value' = Last(set)
            /\ bf' = 2
            /\ pc' = "candidate"
            /\ UNCHANGED <<encoded, data>>
    /\ UNCHANGED <<prior, set, mode, height, indices, filled_indices, nodes, state, os,
                   visited, forced,
                   overflow_checks, dec, out, result>>

\* if BranchFactor::X.tree_height_for(max_value) < OutputBitStream::MAX_HEIGHT
Candidate ==
    /\ pc = "candidate"
    /\ pc' = IF feasible(bf, max_value) THEN "to_sparse_bit_set_with_bf" ELSE "candidate_done"
    /\ UNCHANGED <<prior, set, mode, bf, max_value, height, indices, filled_indices, nodes, state,
                   os, visited, candidates, forced, encoded, data, overflow_checks, dec, out,
                   result>>

\* on to the next branch factor
CandidateDone ==
    /\ pc = "candidate_done"
    /\ bf # 32
    /\ bf' = NextBranchFactor(bf)
    /\ pc' = "candidate"
    /\ UNCHANGED <<prior, set, mode, max_value, height, indices, filled_indices, nodes, state,
                   os, visited, candidates, forced, encoded, data, overflow_checks, dec, out,
                   result>>

MinByKey ==
    /\ pc = "candidate_done"
    /\ bf = 32
    /\ IF candidates = <<>>
       THEN \* unwrap() of None
            /\ result' = Panic
            /\ pc' = "done"
            /\ UNCHANGED <<encoded, data>>
       ELSE /\ encoded' = min_by_key_len(candidates)
            /\ data' = encoded'
            /\ pc' = "encoded"
            /\ UNCHANGED result
    /\ UNCHANGED <<prior, set, mode, bf, max_value, height, indices, filled_indices, nodes, state,
                   os, visited, candidates, forced, overflow_checks, dec, out>>

\* the same set handed to to_sparse_bit_set after a forced encoding of it
ThenToSparseBitSet ==
    /\ pc = "encoded"
    /\ mode # 0
    /\ data = encoded
    /\ mode' = 0
    /\ pc' = "to_sparse_bit_set"
    /\ UNCHANGED <<prior, set, bf, max_value, height, indices, filled_indices, nodes, state,
                   os, visited,
                   candidates, forced, encoded, data, overflow_checks, dec, out, result>>

-----------------------------------------------------------------------------
(* InputBitStream (input_bit_stream.rs): the reader of what OutputBitStream *)
(* writes.  byte_index counts from 0; the header is byte 0.                 *)

\* the positions of the set bits of a byte, moved up by shift
BitsOf(byte, shift) == {i + shift : i \in {j \in 0 .. 7 : (byte \div 2^j) % 2 = 1}}

\* decode_header: Some(<<branch_factor, height>>) or None
decode_header(d) ==
    IF Len(d) = 0
    THEN None
    ELSE Some(<<CHOOSE b \in BranchFactors : selector(b) = d[1] % 4, (d[1] \div 4) % 32>>)

\* InputBitStream::<BF>::from(data)
from(d) == [byte_index |-> 1, sub_index |-> 0]

\* next(): the node word (or None) and the stream after it
next_node(s, d, BF) ==
    IF s.byte_index + bytes_per_node(BF) > Len(d)
    THEN [bits |-> None, stream |-> s]
    ELSE IF BF = 32
    THEN [bits |-> Some(UNION {BitsOf(d[s.byte_index + 1 + k], 8 * k) : k \in 0 .. 3}),
          stream |-> [byte_index |-> s.byte_index + 4, sub_index |-> 0]]
    ELSE LET word == (d[s.byte_index + 1] \div 2^(s.sub_index * BF)) % (byte_mask(BF) + 1)
             sub == (s.sub_index + 1) % nodes_per_byte(BF)
         IN  [bits |-> Some(BitsOf(word, 0)),
              stream |-> [byte_index |-> IF sub = 0 THEN s.byte_index + 1 ELSE s.byte_index,
                          sub_index |-> sub]]

-----------------------------------------------------------------------------
(* The decoder *)

NextNode(start, depth) == [start |-> start, depth |-> depth]

\* insert_range(lo ..= hi) on the set under construction; an empty range adds nothing
insert_range(o, lo, hi) == IF Le(lo, hi) THEN o \cup {<<lo, hi>>} ELSE o

\* next.start + (BF as u32).pow(exp) - 1: the wrapped value, and whether it overflowed
filled_end(start, BF, exp) ==
    LET p == Pow(BF, exp)
        a == Add(start, p.v)
        s == Sub(a.v, U32(1))
    IN  [v |-> s.v, of |-> p.of \/ a.of \/ s.of]

\* a plausible slip: the exponent of the filled case used for a child
child_start_exp_plus_one(start, bit_index, BF, exp) ==
    LET p == Pow(BF, exp + 1)
        m == Mul(p.v, bit_index)
        a == Add(start, m.v)
    IN  [v |-> a.v, of |-> p.of \/ m.of \/ a.of]

\* next.start + bit_index * (BF as u32).pow(exp)
child_start(start, bit_index, BF, exp) ==
    LET p == Pow(BF, exp)
        m == Mul(p.v, bit_index)
        a == Add(start, m.v)
    IN  [v |-> a.v, of |-> p.of \/ m.of \/ a.of]

\* a plausible slip: the bits of a word scanned from the highest (leading_zeros)
RECURSIVE pushed_highest_first(_, _, _, _)
pushed_highest_first(bits, next, BF, h) ==
    IF bits = {}
    THEN <<>>
    ELSE LET bit_index == CHOOSE b \in bits : \A c \in bits : c <= b
         IN  <<NextNode(child_start(next.start, bit_index, BF, h - next.depth).v,
                        next.depth + 1)>>
                 \o pushed_highest_first(bits \ {bit_index}, next, BF, h)

\* the nodes pushed for the set bits of a word, lowest bit first
RECURSIVE pushed(_, _, _, _)
pushed(bits, next, BF, h) ==
    IF bits = {}
    THEN <<>>
    ELSE LET bit_index == CHOOSE b \in bits : \A c \in bits : b <= c
         IN  <<NextNode(child_start(next.start, bit_index, BF, h - next.depth).v,
                        next.depth + 1)>>
                 \o pushed(bits \ {bit_index}, next, BF, h)

\* whether reading the word bits for the node next overflows a u32 somewhere
overflows(bits, next, BF, h) ==
    IF bits = {}
    THEN filled_end(next.start, BF, h - next.depth + 1).of
    ELSE IF next.depth = h
    THEN \E b \in bits : Add(next.start, U32(b)).of
    ELSE \E b \in bits : child_start(next.start, b, BF, h - next.depth).of

MaxTrunc == 2

\* bytes cut off the end of an encoding before it is decoded
Truncate ==
    /\ pc = "encoded"
    /\ prior = NoResult
    /\ forced = None \/ mode # 0
    /\ Len(data) > 0
    /\ Len(encoded) - Len(data) < MaxTrunc
    /\ data' = SubSeq(data, 1, Len(data) - 1)
    /\ UNCHANGED <<prior, pc, set, mode, bf, max_value, height, indices, filled_indices, nodes,
                   state, os, visited, candidates, forced, encoded, overflow_checks, dec,
                   out, result>>

\* byte buffers handed to from_sparse_bit_set as they are: those of the decoding
\* tests, and headers with a height at which BF^height passes 2^32
Buffers ==
    { <<14, 33, 17, 1, 4, 2, 8>>,          \* spec_example_2
      <<0>>,                               \* spec_example_3
      <<13, 3, 49>>,                       \* spec_example_4
      <<14, 33, 17, 1, 4, 2>>,             \* invalid
      <<1>>, <<2, 255>>, <<0, 1>>,         \* height 0, each selector, bytes after the header
      <<3, 7, 7, 7, 7>>,
      <<124, 2>>,                          \* branch factor 2, height 31
      <<65, 0>>,                           \* branch factor 4, height 16, a filled root
      <<46, 0>>,                           \* branch factor 8, height 11, a filled root
      <<35, 2, 0, 0, 0>>,                  \* branch factor 32, height 8
      <<35, 1, 0, 0, 0, 0, 0, 0, 0>> }

\* the caller hands over a buffer of its own
FromBytes ==
    /\ pc = "encoded"
    /\ prior = NoResult
    /\ set = {}
    /\ mode = 0
    /\ forced = None
    /\ data = encoded
    /\ data' \in Buffers \ {encoded}
    /\ UNCHANGED <<prior, pc, set, mode, bf, max_value, height, indices, filled_indices, nodes,
                   state, os, visited, candidates, forced, encoded, overflow_checks, dec,
                   out, result>>

\* a plausible slip: no early return for height 0
FromSparseBitSet_no_height_test ==
    /\ pc = "encoded"
    /\ forced = None \/ mode # 0
    /\ overflow_checks' \in (IF prior = NoResult THEN BOOLEAN ELSE {overflow_checks})
    /\ LET header == decode_header(data)
       IN  IF header = None
           THEN /\ result' = Err
                /\ pc' = "done"
                /\ UNCHANGED <<dec, out>>
           ELSE LET branch_factor == header[1][1]
                    h == header[1][2]
                IN  /\ out' = {}
                    /\ dec' = [height |-> h,
                               BF |-> branch_factor,
                               byte_index |-> from(data).byte_index,
                               sub_index |-> from(data).sub_index,
                               queue |-> <<NextNode(Zero, 1)>>]
                    /\ pc' = "while_queue"
                    /\ UNCHANGED result
    /\ UNCHANGED <<prior, set, mode, bf, max_value, height, indices, filled_indices, nodes, state,
                   os, visited, candidates, forced, encoded, data>>

\* from_sparse_bit_set up to the while loop of decode_sparse_bit_set_nodes
FromSparseBitSet ==
    /\ pc = "encoded"
    /\ forced = None \/ mode # 0
    /\ overflow_checks' \in (IF prior = NoResult THEN BOOLEAN ELSE {overflow_checks})
    /\ LET header == decode_header(data)
       IN  IF header = None
           THEN /\ result' = Err
                /\ pc' = "done"
                /\ UNCHANGED <<dec, out>>
           ELSE LET branch_factor == header[1][1]
                    h == header[1][2]
                IN  /\ out' = {}
                    /\ IF h = 0
                       THEN /\ result' = Ok(out')
                            /\ pc' = "done"
                            /\ dec' = [NoDec EXCEPT !.BF = branch_factor]
                       ELSE /\ dec' = [height |-> h,
                                       BF |-> branch_factor,
                                       byte_index |-> from(data).byte_index,
                                       sub_index |-> from(data).sub_index,
                                       queue |-> <<NextNode(Zero, 1)>>]
                            /\ pc' = "while_queue"
                            /\ UNCHANGED result
    /\ UNCHANGED <<prior, set, mode, bf, max_value, height, indices, filled_indices, nodes, state,
                   os, visited, candidates, forced, encoded, data>>

\* a plausible slip: the children pushed at the front of the queue
DecodeNode_push_front ==
    /\ pc = "while_queue"
    /\ dec.queue # <<>>
    /\ LET next == Head(dec.queue)
           r == next_node(dec, data, dec.BF)
       IN  IF r.bits = None
           THEN /\ result' = Err
                /\ pc' = "done"
                /\ UNCHANGED <<dec, out>>
           ELSE LET bits == r.bits[1]
                    popped == [dec EXCEPT !.queue = Tail(@),
                                          !.byte_index = r.stream.byte_index,
                                          !.sub_index = r.stream.sub_index]
                IN  IF overflow_checks /\ overflows(bits, next, dec.BF, dec.height)
                    THEN /\ result' = Panic
                         /\ pc' = "done"
                         /\ dec' = popped
                         /\ UNCHANGED out
                    ELSE IF bits = {}
                    THEN /\ out' = insert_range(out, next.start,
                                       filled_end(next.start, dec.BF,
                                                  dec.height - next.depth + 1).v)
                         /\ dec' = popped
                         /\ UNCHANGED <<pc, result>>
                    ELSE IF next.depth = dec.height
                    THEN /\ out' = out \cup
                                 {<<Add(next.start, U32(b)).v, Add(next.start, U32(b)).v>> :
                                      b \in bits}
                         /\ dec' = popped
                         /\ UNCHANGED <<pc, result>>
                    ELSE /\ dec' = [popped EXCEPT
                                       !.queue = pushed(bits, next, dec.BF, dec.height) \o @]
                         /\ UNCHANGED <<pc, result, out>>
    /\ UNCHANGED <<prior, set, mode, bf, max_value, height, indices, filled_indices, nodes, state,
                   os, visited, candidates, forced, encoded, data, overflow_checks>>

\* one round of while let Some(next) = queue.pop_front()
DecodeNode ==
    /\ pc = "while_queue"
    /\ dec.queue # <<>>
    /\ LET next == Head(dec.queue)
           r == next_node(dec, data, dec.BF)
       IN  IF r.bits = None
           THEN /\ result' = Err
                /\ pc' = "done"
                /\ UNCHANGED <<dec, out>>
           ELSE LET bits == r.bits[1]
                    popped == [dec EXCEPT !.queue = Tail(@),
                                          !.byte_index = r.stream.byte_index,
                                          !.sub_index = r.stream.sub_index]
                IN  IF overflow_checks /\ overflows(bits, next, dec.BF, dec.height)
                    THEN /\ result' = Panic
                         /\ pc' = "done"
                         /\ dec' = popped
                         /\ UNCHANGED out
                    ELSE IF bits = {}
                    THEN /\ out' = insert_range(out, next.start,
                                       filled_end(next.start, dec.BF,
                                                  dec.height - next.depth + 1).v)
                         /\ dec' = popped
                         /\ UNCHANGED <<pc, result>>
                    ELSE IF next.depth = dec.height
                    THEN /\ out' = out \cup
                                 {<<Add(next.start, U32(b)).v, Add(next.start, U32(b)).v>> :
                                      b \in bits}
                         /\ dec' = popped
                         /\ UNCHANGED <<pc, result>>
                    ELSE /\ dec' = [popped EXCEPT
                                       !.queue = @ \o pushed(bits, next, dec.BF, dec.height)]
                         /\ UNCHANGED <<pc, result, out>>
    /\ UNCHANGED <<prior, set, mode, bf, max_value, height, indices, filled_indices, nodes, state,
                   os, visited, candidates, forced, encoded, data, overflow_checks>>

\* a plausible slip: whole bytes left unread after the last node are an error
DecodeReturn_leftover_error ==
    /\ pc = "while_queue"
    /\ dec.queue = <<>>
    /\ result' = IF dec.byte_index + (IF dec.sub_index > 0 THEN 1 ELSE 0) < Len(data)
                 THEN Err
                 ELSE Ok(out)
    /\ pc' = "done"
    /\ UNCHANGED <<prior, set, mode, bf, max_value, height, indices, filled_indices, nodes,
                   state, os, visited, candidates, forced, encoded, data, overflow_checks,
                   dec, out>>

\* the queue is empty: builder.finish() and Ok(out)
DecodeReturn ==
    /\ pc = "while_queue"
    /\ dec.queue = <<>>
    /\ result' = Ok(out)
    /\ pc' = "done"
    /\ UNCHANGED <<prior, set, mode, bf, max_value, height, indices, filled_indices, nodes, state,
                   os, visited, candidates, forced, encoded, data, overflow_checks, dec, out>>

\* bytes that follow an encoding in the caller's buffer
Extras == {<<0>>, <<255>>, <<1, 0, 0, 0>>}

\* from_sparse_bit_set returned Ok: the caller hands over the same bytes again, in
\* the same build, followed by more bytes
FromBytesExtended ==
    /\ pc = "done"
    /\ prior = NoResult
    /\ result.tag = "Ok"
    /\ prior' = result
    /\ \E extra \in Extras : data' = data \o extra
    /\ result' = NoResult
    /\ pc' = "encoded"
    /\ UNCHANGED <<set, mode, bf, max_value, height, indices, filled_indices, nodes, state,
                   os, visited, candidates, forced, encoded, overflow_checks, dec, out>>

Next ==
    \/ ToSparseBitSetWithBf
    \/ CreateLayer
    \/ CreateLayerValue
    \/ CreateLayerReturn
    \/ WriteNode
    \/ IntoBytes
    \/ ToSparseBitSet
    \/ Candidate
    \/ CandidateDone
    \/ MinByKey
    \/ ThenToSparseBitSet
    \/ Truncate
    \/ FromBytes
    \/ FromBytesExtended
    \/ FromSparseBitSet
    \/ DecodeNode
    \/ DecodeReturn

Spec == Init /\ [][Next]_vars

\* the same program, with the loop of decode_sparse_bit_set_nodes running on: a
\* round that can be taken is taken, and so is the return after the loop
SpecFair == Spec /\ WF_vars(DecodeNode) /\ WF_vars(DecodeReturn)

-----------------------------------------------------------------------------
(* The decoder with one pending node taken out of turn: the loop of          *)
(* decode_sparse_bit_set_nodes with queue.pop_front() replaced, once, by the *)
(* removal of a node further back; the node words are still read in order.   *)

\* the queue without its i-th node
remove(queue, i) == SubSeq(queue, 1, i - 1) \o SubSeq(queue, i + 1, Len(queue))

\* one round of the loop on the i-th pending node: i > 1 once, the front afterwards
DecodeNodeOutOfTurn ==
    /\ pc \in {"while_queue", "while_queue_any"}
    /\ data = encoded
    /\ \E i \in 1 .. Len(dec.queue) :
          /\ pc = "while_queue" => i > 1
          /\ pc = "while_queue_any" => i = 1
          /\ LET next == dec.queue[i]
                 r == next_node(dec, data, dec.BF)
             IN  IF r.bits = None
                 THEN /\ result' = Err
                      /\ pc' = "done_any"
                      /\ UNCHANGED <<dec, out>>
                 ELSE LET bits == r.bits[1]
                          popped == [dec EXCEPT !.queue = remove(@, i),
                                                !.byte_index = r.stream.byte_index,
                                                !.sub_index = r.stream.sub_index]
                      IN  IF overflow_checks /\ overflows(bits, next, dec.BF, dec.height)
                          THEN /\ result' = Panic
                               /\ pc' = "done_any"
                               /\ dec' = popped
                               /\ UNCHANGED out
                          ELSE /\ pc' = "while_queue_any"
                               /\ UNCHANGED result
                               /\ IF bits = {}
                                  THEN /\ out' = insert_range(out, next.start,
                                                     filled_end(next.start, dec.BF,
                                                                dec.height - next.depth + 1).v)
                                       /\ dec' = popped
                                  ELSE IF next.depth = dec.height
                                  THEN /\ out' = out \cup
                                               {<<Add(next.start, U32(b)).v,
                                                  Add(next.start, U32(b)).v>> : b \in bits}
                                       /\ dec' = popped
                                  ELSE /\ dec' = [popped EXCEPT
                                                     !.queue = @ \o pushed(bits, next, dec.BF,
                                                                           dec.height)]
                                       /\ UNCHANGED out
    /\ UNCHANGED <<prior, set, mode, bf, max_value, height, indices, filled_indices, nodes, state,
                   os, visited, candidates, forced, encoded, data, overflow_checks>>

\* the queue is empty after a node was taken out of turn
DecodeReturnOutOfTurn ==
    /\ pc = "while_queue_any"
    /\ dec.queue = <<>>
    /\ result' = Ok(out)
    /\ pc' = "done_any"
    /\ UNCHANGED <<prior, set, mode, bf, max_value, height, indices, filled_indices, nodes, state,
                   os, visited, candidates, forced, encoded, data, overflow_checks, dec, out>>

NextAnyOrder ==
    \/ Next
    \/ DecodeNodeOutOfTurn
    \/ DecodeReturnOutOfTurn

SpecAnyOrder == Init /\ [][NextAnyOrder]_vars

-----------------------------------------------------------------------------
(* The members of a decoded set *)

\* whether the u32 v is in the set given by the ranges o
Member(o, v) == \E r \in o : Le(r[1], v) /\ Le(v, r[2])

\* hi - lo + 1 when that is at most n, else n + 1
SizeUpTo(r, n) ==
    LET d == Sub(r[2], r[1]).v
    IN  IF d[1] > 0 \/ d[2] >= n THEN n + 1 ELSE d[2] + 1

\* whether the ranges o hold exactly the members of the set s
SameSet(o, s) ==
    /\ \A v \in s : Member(o, v)
    /\ \A r \in o :
          /\ SizeUpTo(r, Cardinality(s)) <= Cardinality(s)
          /\ \A i \in 0 .. SizeUpTo(r, Cardinality(s)) - 1 : Add(r[1], U32(i)).v \in s

-----------------------------------------------------------------------------
(* What a run has done *)

\* an encoding was returned and handed to the decoder as it is, and the decoder is done
DecodedWhole == pc = "done" /\ encoded # None /\ data = encoded

\* the same with bytes cut off its end
DecodedTruncated == pc = "done" /\ encoded # None /\ data # encoded /\ prior = NoResult

\* to_sparse_bit_set has returned
AutoReturned == pc \in {"encoded", "done"} /\ mode = 0 /\ encoded # None

\* to_sparse_bit_set_with_bf::<mode> has returned, and nothing was encoded after it
ForcedReturned == pc \in {"encoded", "done"} /\ mode # 0 /\ encoded # None

\* the branch factor named by the header of an encoding
HeaderBranchFactor(bytes) == CHOOSE b \in BranchFactors : selector(b) = bytes[1] % 4

HeaderHeight(bytes) == (bytes[1] \div 4) % 32

\* the i-th node word after the header, by the positions of its set bits
WordBits(bytes, BF, i) ==
    IF BF = 32
    THEN UNION {BitsOf(bytes[1 + (4 * (i - 1)) + k + 1], 8 * k) : k \in 0 .. 3}
    ELSE LET per == 8 \div BF
             byte == bytes[2 + ((i - 1) \div per)]
         IN  BitsOf((byte \div 2^(((i - 1) % per) * BF)) % 2^BF, 0)

\* the number of bytes of a header followed by n node words
BytesFor(BF, n) == 1 + (((n * BF) + 7) \div 8)

-----------------------------------------------------------------------------
(* Claims *)

\* C1: for every set S and every forced branch factor whose tree height fits the
\* format's maximum height, decoding the forced encoding returns Ok with a set equal
\* to S.
C1_RoundTripForced ==
    (DecodedWhole /\ mode # 0) => (result.tag = "Ok" /\ SameSet(result.set, set))

\* C2: for every set S, including sets that contain u32::MAX, decoding
\* S.to_sparse_bit_set() returns Ok with a set equal to S.
C2_RoundTripAuto ==
    (DecodedWhole /\ mode = 0) => (result.tag = "Ok" /\ SameSet(result.set, set))

\* C3: for every non-empty set and every branch factor whose forced encoding is
\* valid, to_sparse_bit_set() is no longer than the forced encoding.
C3_Minimality ==
    (AutoReturned /\ forced # None /\ set # {}) => Len(encoded) <= Len(forced)

\* C4: to_sparse_bit_set skips a branch factor if and only if its tree height for
\* max(S) exceeds MAX_HEIGHT; every other branch factor is encoded as a candidate.
C4_Feasibility ==
    (AutoReturned /\ set # {}) =>
        \A b \in BranchFactors :
            (\E i \in 1 .. Len(candidates) : HeaderBranchFactor(candidates[i]) = b)
                <=> tree_height_for(b, Last(set)) <= MAX_HEIGHT

\* C5: for every non-empty set, a valid encoding of it with trailing bytes removed
\* makes from_sparse_bit_set return Err(DecodingError).
C5_Truncation ==
    (DecodedTruncated /\ set # {}) => result.tag = "Err"

\* C6: from_sparse_bit_set returns Err(DecodingError) exactly when the header cannot
\* be decoded or a pending node is dequeued with no node word left; in every other
\* case it returns Ok.
C6_SingleError ==
    (pc = "done" /\ encoded # None) =>
        /\ result.tag \in {"Ok", "Err"}
        /\ result.tag = "Err" <=>
               \/ decode_header(data) = None
               \/ dec.queue # <<>> /\ next_node(dec, data, dec.BF).bits = None

\* C7: the empty set, encoded by to_sparse_bit_set or forced with branch factor 2,
\* is the one byte 0b00000000 (height field 0), and that byte decodes to the empty set.
C7_EmptySet ==
    /\ ((AutoReturned \/ (ForcedReturned /\ mode = 2)) /\ set = {}) =>
           (encoded = <<0>> /\ HeaderHeight(encoded) = 0)
    /\ (pc = "done" /\ data = <<0>>) => result = Ok({})

C7_Witness ==
    /\ pc = "done"
    /\ set = {}
    /\ mode = 0
    /\ data = <<0>>
    /\ result = Ok({})

\* the set is the run a * BF^k ..= (a + 1) * BF^k - 1 for some a
AlignedRun(s, BF, k) ==
    /\ s # {}
    /\ Cardinality(s) = BF^k
    /\ Mod(First(s), BF^k) = 0
    /\ Last(s) = Add(First(s), U32(BF^k - 1)).v

\* C9: the forced encoding of an aligned run of BF^k values, k >= 1, is the header
\* and exactly height - k + 1 node words: a word with a single bit for each layer
\* above the run, then one all-zero word, and nothing for the subtree below it.
C9_FilledRange ==
    \A k \in 1 .. 5 :
        (ForcedReturned /\ Cardinality(set) = mode^k /\ AlignedRun(set, mode, k)) =>
            LET h == tree_height_for(mode, Last(set))
                emitted == {i \in 1 .. Len(nodes) : nodes[i].node_type # "Skip"}
            IN  /\ Cardinality(emitted) = h - k + 1
                /\ Len(encoded) = BytesFor(mode, h - k + 1)
                /\ \A i \in 1 .. h - k : Cardinality(WordBits(encoded, mode, i)) = 1
                /\ WordBits(encoded, mode, h - k + 1) = {}

C9_Witness ==
    /\ pc = "encoded"
    /\ mode = 4
    /\ set = U32s(0 .. 15)
    /\ encoded = <<9, 0>>
    /\ Len(nodes) = 5

SpecExample2 == <<14, 33, 17, 1, 4, 2, 8>>

\* C10: with branch factor 8 the set {2, 33, 323} encodes to the bytes 0b00001110,
\* 0b00100001, 0b00010001, 0b00000001, 0b00000100, 0b00000010, 0b00001000, and
\* decoding these bytes yields exactly {2, 33, 323}.
C10_SpecExample ==
    /\ (ForcedReturned /\ mode = 8 /\ set = U32s({2, 33, 323})) => encoded = SpecExample2
    /\ (pc = "done" /\ data = SpecExample2) =>
           (result.tag = "Ok" /\ SameSet(result.set, U32s({2, 33, 323})))

C10_Witness ==
    /\ pc = "done"
    /\ mode = 8
    /\ set = U32s({2, 33, 323})
    /\ data = SpecExample2
    /\ result.tag = "Ok"

\* C11: when several feasible branch factors give encodings of the same minimal
\* length, to_sparse_bit_set returns the encoding of the first of them in the order
\* 2, 4, 8, 32: the first of the shortest candidates, and no valid forced encoding
\* of the same length has a smaller branch factor.
C11_TieBreaking ==
    (AutoReturned /\ set # {}) =>
        /\ \E i \in 1 .. Len(candidates) :
              /\ encoded = candidates[i]
              /\ \A j \in 1 .. Len(candidates) :
                    /\ Len(candidates[j]) >= Len(encoded)
                    /\ j < i => Len(candidates[j]) > Len(encoded)
        /\ (forced # None /\ Len(forced) = Len(encoded)) =>
               HeaderBranchFactor(encoded) <= HeaderBranchFactor(forced)

\* C12: for every non-empty set to_sparse_bit_set has at least one candidate when
\* the minimum is taken, so it returns a byte vector and never fails.
C12_NoErrorPath ==
    mode = 0 =>
        /\ (pc = "candidate_done" /\ bf = 32) => candidates # <<>>
        /\ pc = "done" => (forced = None /\ encoded # None)

C12_Witness ==
    /\ pc = "encoded"
    /\ mode = 0
    /\ set = {U32(1), u32_MAX}
    /\ Len(candidates) = 3
    /\ HeaderBranchFactor(candidates[1]) = 4
    /\ encoded \in {candidates[i] : i \in 1 .. 3}

C14_FullMask ==
    pc \in {"create_layer", "while_height"} =>
        /\ u32_mask(bf) = 0 .. value(bf) - 1
        /\ \A i \in 1 .. Len(nodes) :
              nodes[i].node_type = "Filled" => nodes[i].bits = 0 .. value(bf) - 1

C14_Witness ==
    /\ pc = "while_height"
    /\ mode = 32
    /\ set = U32s(0 .. 31)
    /\ Len(nodes) = 1
    /\ nodes[1].node_type = "Filled"
    /\ Cardinality(nodes[1].bits) = 32

\* C14 (as stated): the full mask is (1 << bitWidth) - 1 with bitWidth = log2(BF),
\* that is 1, 2, 3, 5 bits for the branch factors 2, 4, 8, 32.
C14_FullMaskLog2 ==
    pc \in {"create_layer", "while_height"} =>
        /\ u32_mask(bf) = 0 .. node_size_log2(bf) - 1
        /\ \A i \in 1 .. Len(nodes) :
              nodes[i].node_type = "Filled" => nodes[i].bits = 0 .. node_size_log2(bf) - 1

-----------------------------------------------------------------------------
(* The tree of the set being encoded, from the set alone: layer k is k levels *)
(* above the leaves, and a node of layer k with index p covers the values     *)
(* p * BF^(k+1) ..= (p + 1) * BF^(k+1) - 1.                                   *)

\* v / BF^n
RECURSIVE Ancestor(_, _, _)
Ancestor(v, BF, n) == IF n = 0 THEN v ELSE Ancestor(Div(v, BF), BF, n - 1)

\* the members of the set covered by the node p of layer k
Covered(p, BF, k) == {v \in set : Ancestor(v, BF, k + 1) = p}

\* whether every value the node covers is in the set (the sets have under 2^8 members)
Full(p, BF, k) ==
    /\ Log2(BF) * (k + 1) <= 8
    /\ Cardinality(Covered(p, BF, k)) = 2^(Log2(BF) * (k + 1))

\* the layer being built, or just built, by create_layer
CurrentLayer ==
    tree_height_for(bf, max_value) - height - (IF pc = "while_height" THEN 1 ELSE 0)

\* C15: a node committed at the layer k levels above the leaves with index p is
\* Filled at commit time if and only if every value of its range
\* [p * BF^(k+1), (p+1) * BF^(k+1) - 1] is in the set; a node with all children
\* present but not all of them filled stays Standard and is written with its full
\* bitmask (encode_two_level_not_filled).
C15_FilledExact ==
    /\ (pc \in {"create_layer", "while_height"} /\ state # NoState) =>
           \A i \in state.nodes_init_length + 1 .. Len(nodes) :
               /\ nodes[i].node_type \in {"Standard", "Filled"}
               /\ nodes[i].node_type = "Filled" <=>
                      Full(nodes[i].parent_index, bf, CurrentLayer)
    /\ (ForcedReturned /\ mode = 4 /\ set = U32s({0, 4, 8, 12})) =>
           /\ encoded = <<9, 31, 17, 1>>
           /\ WordBits(encoded, 4, 1) = 0 .. 3

C15_Witness ==
    /\ pc = "encoded"
    /\ mode = 4
    /\ set = U32s({0, 4, 8, 12})
    /\ Len(nodes) = 5
    /\ nodes[5] = Node(0 .. 3, Zero, "Standard")
    /\ encoded = <<9, 31, 17, 1>>

\* the number of nodes of layer k
LayerSize(BF, k) == Cardinality({Ancestor(v, BF, k + 1) : v \in set})

\* the number of nodes of the layers below layer k: where layer k starts in the node list
LayerStarts(BF, h) ==
    LET f[k \in 0 .. h] == IF k = 0 THEN 0 ELSE f[k - 1] + LayerSize(BF, k - 1)
    IN  f

\* the layer of the i-th node of the list, given where the layers start
LayerOf(i, starts, h) == CHOOSE k \in 0 .. h - 1 : starts[k] < i /\ i <= starts[k + 1]

\* C16: when all layers are built, a node of the list is Skip if and only if some
\* proper ancestor of it is fully filled: the whole subtree below a Filled node that
\* is emitted is Skip, and no other node is.
C16_SkipExact ==
    (pc = "while_height" /\ height = 0 /\ visited = 0) =>
        LET h == tree_height_for(bf, max_value)
            starts == LayerStarts(bf, h)
        IN  /\ Len(nodes) = starts[h]
            /\ \A i \in 1 .. Len(nodes) :
                  LET k == LayerOf(i, starts, h)
                  IN  nodes[i].node_type = "Skip" <=>
                          \E j \in 1 .. h - 1 - k :
                              Full(Ancestor(nodes[i].parent_index, bf, j), bf, k + j)

C16_Witness ==
    /\ pc = "while_height"
    /\ height = 0
    /\ visited = 0
    /\ mode = 2
    /\ set = U32s({0} \cup (4 .. 15))
    /\ Len(nodes) = 14
    /\ Cardinality({i \in 1 .. 14 : nodes[i].node_type = "Skip"}) = 8
    /\ nodes[1].node_type = "Skip"
    /\ nodes[10].node_type = "Filled"
    /\ nodes[12].node_type = "Filled"

\* whether the i-th node of the list is written
IsEmitted(i) == nodes[i].node_type # "Skip"

\* the places in the node list of the nodes that are written, in the order of writing
EmittedIndex == SelectSeq([i \in 1 .. Len(nodes) |-> Len(nodes) + 1 - i], IsEmitted)

\* C17: every node the layer builder creates has a non-zero bitmask, so a node word
\* on the wire is all-zero if and only if its node is Filled; a Standard node is
\* written as its own, non-zero, bits.
C17_WireWords ==
    /\ \A i \in 1 .. Len(nodes) : nodes[i].bits # {}
    /\ state.current_node # None => state.current_node[1].bits # {}
    /\ (pc = "while_height" /\ height = 0 /\ visited = Len(nodes)) =>
           LET e == EmittedIndex
               bytes == into_bytes(os)
           IN  /\ Len(bytes) = BytesFor(bf, Len(e))
               /\ \A w \in 1 .. Len(e) :
                     /\ WordBits(bytes, bf, w) = {} <=> nodes[e[w]].node_type = "Filled"
                     /\ nodes[e[w]].node_type = "Standard" =>
                            WordBits(bytes, bf, w) = nodes[e[w]].bits

C17_Witness ==
    /\ pc = "while_height"
    /\ height = 0
    /\ visited = Len(nodes)
    /\ mode = 4
    /\ set = U32s(0 .. 17)
    /\ into_bytes(os) = <<13, 3, 49>>
    /\ Len(EmittedIndex) = 4
    /\ nodes[EmittedIndex[2]].node_type = "Filled"

\* p * BF^n
RECURSIVE Descend(_, _, _)
Descend(p, BF, n) == IF n = 0 THEN p ELSE Descend(Mul(p, BF).v, BF, n - 1)

\* the number of node words the decoder has read
Consumed ==
    IF dec.BF = 32
    THEN (dec.byte_index - 1) \div 4
    ELSE ((dec.byte_index - 1) * nodes_per_byte(dec.BF)) + dec.sub_index

\* C18: the node words after the header are the non-Skip nodes of the root layer,
\* then of each layer below it down to the leaves, within a layer in ascending node
\* index; the breadth-first decoder dequeues its pending nodes in the same order,
\* so the i-th word written is the word it pairs with its i-th dequeued node.
C18_EmissionOrder ==
    LET h == tree_height_for(bf, max_value)
        starts == LayerStarts(bf, h)
        e == EmittedIndex
    IN  /\ (pc = "while_height" /\ height = 0 /\ visited = 0) =>
               /\ Len(e) >= 1
               /\ LayerOf(e[1], starts, h) = h - 1
               /\ \A w \in 1 .. Len(e) - 1 :
                     LET k1 == LayerOf(e[w], starts, h)
                         k2 == LayerOf(e[w + 1], starts, h)
                     IN  \/ k1 = k2 + 1
                         \/ /\ k1 = k2
                            /\ Lt(nodes[e[w]].parent_index, nodes[e[w + 1]].parent_index)
        /\ (pc = "while_queue" /\ mode # 0 /\ data = encoded /\ dec.queue # <<>>) =>
               /\ Consumed < Len(e)
               /\ LET i == e[Consumed + 1]
                      k == LayerOf(i, starts, h)
                  IN  /\ Head(dec.queue).depth = h - k
                      /\ Head(dec.queue).start = Descend(nodes[i].parent_index, bf, k + 1)

C18_Witness ==
    /\ pc = "while_queue"
    /\ mode = 32
    /\ set = U32s({2, 31, 323})
    /\ data = encoded
    /\ Consumed = 2
    /\ dec.queue = <<NextNode(U32(320), 2)>>
    /\ nodes[EmittedIndex[3]] = Node({3}, U32(10), "Standard")

-----------------------------------------------------------------------------
(* The steps of the decoder against exact arithmetic: a value is Some(u32), *)
(* or None when it is not a u32.                                            *)

\* start + 2^n - 1
ExactEnd(start, n) ==
    IF n > 32 THEN None
    ELSE IF n = 32 THEN (IF start = Zero THEN Some(u32_MAX) ELSE None)
    ELSE LET a == Add(start, Sub(Pow2(n), U32(1)).v)
         IN  IF a.of THEN None ELSE Some(a.v)

\* start + b * 2^n, for a bit position b
ExactChild(start, b, n) ==
    IF b = 0 THEN Some(start)
    ELSE IF n >= 32 THEN None
    ELSE LET m == Mul(Pow2(n), b)
             a == Add(start, m.v)
         IN  IF m.of \/ a.of THEN None ELSE Some(a.v)

\* the members of a set of bit positions, lowest first
Ascending(bits) ==
    [i \in 1 .. Cardinality(bits) |->
        CHOOSE b \in bits : Cardinality({c \in bits : c < b}) = i - 1]

\* the decoder dequeues a node and there is a word to read for it
ReadsWord ==
    /\ pc = "while_queue"
    /\ dec.queue # <<>>
    /\ next_node(dec, data, dec.BF).bits # None

\* the word it reads, by the positions of its set bits
Word == next_node(dec, data, dec.BF).bits[1]

\* C19: when the word read for a pending node {start, depth} is all-zero, the
\* decoder inserts exactly start ..= start + BF^(height - depth + 1) - 1 and
\* enqueues no child, at the leaf layer too (exactly BF values).
C19_FilledStep ==
    [][(ReadsWord /\ Word = {}) =>
          LET next == Head(dec.queue)
              end == ExactEnd(next.start, Log2(dec.BF) * (dec.height - next.depth + 1))
          IN  /\ pc' = "while_queue"
              /\ end # None
              /\ out' = out \cup {<<next.start, end[1]>>}
              /\ dec'.queue = Tail(dec.queue)]_vars

\* C20: when the word read for a pending node {start, depth} is non-zero, then for
\* every set bit b, lowest first, the decoder inserts the one value start + b if
\* depth = height and otherwise enqueues the one node
\* {start + b * BF^(height - depth), depth + 1}; nothing else is inserted or enqueued.
C20_ExpansionStep ==
    [][(ReadsWord /\ Word # {}) =>
          LET next == Head(dec.queue)
              bits == Word
              n == Log2(dec.BF) * (dec.height - next.depth)
              order == Ascending(bits)
          IN  /\ pc' = "while_queue"
              /\ IF next.depth = dec.height
                 THEN /\ \A b \in bits : ExactChild(next.start, b, 0) # None
                      /\ out' = out \cup
                             {<<ExactChild(next.start, b, 0)[1],
                                ExactChild(next.start, b, 0)[1]>> : b \in bits}
                      /\ dec'.queue = Tail(dec.queue)
                 ELSE /\ \A b \in bits : ExactChild(next.start, b, n) # None
                      /\ out' = out
                      /\ dec'.queue = Tail(dec.queue) \o
                             [i \in 1 .. Len(order) |->
                                 NextNode(ExactChild(next.start, order[i], n)[1],
                                          next.depth + 1)]]_vars

\* C21: if the header has height 0, from_sparse_bit_set returns Ok(empty set) for
\* any branch factor selector and any bytes after the header, and reads no node word.
C21_HeightZero ==
    (pc = "done" /\ encoded # None /\ data # <<>> /\ HeaderHeight(data) = 0) =>
        /\ result = Ok({})
        /\ dec.byte_index = from(data).byte_index
        /\ dec.sub_index = from(data).sub_index
        /\ dec.queue = <<>>

C21_Witness ==
    /\ pc = "done"
    /\ data = <<3, 7, 7, 7, 7>>
    /\ dec.BF = 32
    /\ result = Ok({})

\* C22: create_layer returns as upper index set { v / BF : v in values }, one entry
\* per committed node, filled or not, and as upper filled-index set the subset of it
\* holding exactly the parent indices of the nodes committed as filled.
C22_LayerOutput ==
    [][(pc = "create_layer" /\ state.values = {}) =>
          LET committed == state.nodes_init_length + 1 .. Len(nodes')
          IN  /\ indices' = {Div(v, value(bf)) : v \in indices}
              /\ Cardinality(indices') = Cardinality(committed)
              /\ indices' = {nodes'[i].parent_index : i \in committed}
              /\ ~filled_indices'.all
              /\ filled_indices'.members \subseteq indices'
              /\ filled_indices'.members =
                     {nodes'[i].parent_index :
                          i \in {j \in committed : nodes'[j].node_type = "Filled"}}]_vars

C22_Witness ==
    /\ pc = "while_height"
    /\ mode = 4
    /\ set = U32s(0 .. 17)
    /\ height = 2
    /\ indices = U32s(0 .. 4)
    /\ filled_indices = Only(U32s(0 .. 3))

\* C23: while a layer is built at most one node is in progress, and it is committed
\* before a node for another parent index is started: the nodes committed for a
\* layer have strictly descending parent indices, and the bits of a node are exactly
\* the v mod BF of the layer's values v with v / BF equal to its parent index.
C23_OneNodeInProgress ==
    pc \in {"create_layer", "while_height"} =>
        LET committed == state.nodes_init_length + 1 .. Len(nodes)
            values == {Ancestor(v, bf, CurrentLayer) : v \in set}
            seen == values \ state.values
            BitsFor(p, vs) == {Mod(v, value(bf)) : v \in {w \in vs : Div(w, value(bf)) = p}}
        IN  /\ \A i \in committed : nodes[i].bits = BitsFor(nodes[i].parent_index, values)
            /\ \A i, j \in committed :
                  i < j => Lt(nodes[j].parent_index, nodes[i].parent_index)
            /\ state.current_node # None =>
                   LET node == state.current_node[1]
                   IN  /\ node.bits # {}
                       /\ node.bits = BitsFor(node.parent_index, seen)
                       /\ \A i \in committed : Lt(node.parent_index, nodes[i].parent_index)
                       /\ {Div(v, value(bf)) : v \in seen} =
                              {nodes[i].parent_index : i \in committed}
                                  \cup {node.parent_index}

C23_Witness ==
    /\ pc = "create_layer"
    /\ mode = 8
    /\ set = U32s({2, 33, 323})
    /\ height = 3
    /\ Len(nodes) = 2
    /\ nodes[1] = Node({3}, U32(40), "Standard")
    /\ nodes[2] = Node({1}, U32(4), "Standard")
    /\ state.current_node = Some(Node({2}, Zero, "Standard"))

\* C24: a commit never removes or reorders entries of the node list and never
\* changes the bits or parent_index of an appended node; the only change to an
\* existing entry is the kind of a node of the immediately lower layer set to Skip,
\* and a commit with no node in progress changes nothing.
C24_AppendOnly ==
    [][IF pc = "create_layer"
       THEN /\ Len(nodes') \in {Len(nodes), Len(nodes) + 1}
            /\ \A i \in 1 .. Len(nodes) :
                  /\ nodes'[i].bits = nodes[i].bits
                  /\ nodes'[i].parent_index = nodes[i].parent_index
                  /\ nodes'[i].node_type # nodes[i].node_type =>
                         LET h == tree_height_for(bf, max_value)
                             starts == LayerStarts(bf, h)
                         IN  /\ nodes'[i].node_type = "Skip"
                             /\ CurrentLayer >= 1
                             /\ starts[CurrentLayer - 1] < i
                             /\ i <= starts[CurrentLayer]
            /\ state.current_node = None =>
                   commit_current_node(state, nodes, bf) = [state |-> state, nodes |-> nodes]
       ELSE nodes' = nodes \/ (pc = "to_sparse_bit_set_with_bf" /\ nodes' = <<>>)]_vars

C24_Witness ==
    /\ pc = "create_layer"
    /\ mode = 2
    /\ set = U32s({4} \cup (8 .. 15))
    /\ height = 3
    /\ Len(nodes) = 7
    /\ nodes[1].node_type = "Skip"
    /\ nodes[4].node_type = "Skip"
    /\ nodes[5].node_type = "Standard"
    /\ nodes[7].node_type = "Filled"

\* C25: when create_layer has been called once per level of the tree, the index
\* set is {0}, the last layer holds exactly one node, its parent_index is 0, it is
\* never Skip, and it is the first node word written.
C25_SingleRoot ==
    (pc = "while_height" /\ height = 0) =>
        LET root == nodes[Len(nodes)]
        IN  /\ indices = {Zero}
            /\ Len(nodes) = state.nodes_init_length + 1
            /\ root.parent_index = Zero
            /\ root.node_type \in {"Standard", "Filled"}
            /\ Head(EmittedIndex) = Len(nodes)
            /\ visited >= 1 =>
                   WordBits(into_bytes(os), bf, 1) =
                       IF root.node_type = "Filled" THEN {} ELSE root.bits

C25_Witness ==
    /\ pc = "while_height"
    /\ height = 0
    /\ mode = 8
    /\ set = U32s({2, 33, 323})
    /\ visited = 1
    /\ Len(nodes) = 6
    /\ nodes[6] = Node({0, 5}, Zero, "Standard")
    /\ WordBits(into_bytes(os), 8, 1) = {0, 5}

\* C26: every pending node of the decoder has 1 <= depth <= height, and for the
\* word read for the front node {start, depth} the values the decoder computes,
\* BF^(height - depth + 1) and start + BF^(height - depth + 1) - 1 for an all-zero
\* word, BF^(height - depth) and start + b * BF^(height - depth) for each set bit b
\* otherwise, neither overflow nor underflow a u32.
C26_ArithmeticInRange ==
    /\ pc = "while_queue" =>
           \A i \in 1 .. Len(dec.queue) :
               1 <= dec.queue[i].depth /\ dec.queue[i].depth <= dec.height
    /\ ReadsWord =>
           LET next == Head(dec.queue)
               e == dec.height - next.depth
           IN  IF Word = {}
               THEN LET p == Pow(dec.BF, e + 1)
                        a == Add(next.start, p.v)
                    IN  ~p.of /\ ~a.of /\ ~Sub(a.v, U32(1)).of
               ELSE \A b \in Word :
                        LET p == Pow(dec.BF, e)
                            m == Mul(p.v, b)
                        IN  ~p.of /\ ~m.of /\ ~Add(next.start, m.v).of

\* the number of whole node words after the header byte of the buffer
CompleteWords ==
    IF dec.BF = 32 THEN (Len(data) - 1) \div 4 ELSE (Len(data) - 1) * nodes_per_byte(dec.BF)

\* C27: the decoder terminates on every buffer; every round of its loop reads one
\* node word, so it never reads more words than the buffer holds whole, and the
\* loop ends either with an empty queue and Ok or with an exhausted stream and the
\* decoding error.
C27_Termination ==
    /\ [][pc = "while_queue" =>
             /\ ReadsWord => Consumed' = Consumed + 1
             /\ pc' # "done" => ReadsWord
             /\ pc' = "done" =>
                    \/ dec.queue = <<>> /\ result' = Ok(out)
                    \/ dec.queue # <<>> /\ ~ReadsWord /\ result' = Err]_vars
    /\ [](pc = "while_queue" => Consumed <= CompleteWords)
    /\ (pc = "while_queue") ~> (pc = "done")

\* C28: while the decoder runs, the depths of the pending nodes are non-decreasing
\* from the front of the queue to its back and take at most the two values d and
\* d + 1, d being the depth of the front node.
C28_QueueShape ==
    (pc = "while_queue" /\ dec.queue # <<>>) =>
        LET d == Head(dec.queue).depth
        IN  /\ \A i \in 1 .. Len(dec.queue) : dec.queue[i].depth \in {d, d + 1}
            /\ \A i \in 1 .. Len(dec.queue) - 1 :
                   dec.queue[i].depth <= dec.queue[i + 1].depth

C28_Witness ==
    /\ pc = "while_queue"
    /\ data = <<14, 33, 17, 1, 4, 2, 8>>
    /\ Len(dec.queue) = 3
    /\ dec.queue[1].depth = 2
    /\ dec.queue[2].depth = 3
    /\ dec.queue[3].depth = 3

\* C29: when decoding a buffer succeeds with a set, decoding the same bytes
\* followed by any more bytes succeeds with the same set: the decoder stops
\* reading when its queue is empty and leftover input is never an error.
C29_TrailingData ==
    (pc = "done" /\ prior # NoResult) => result = prior

C29_Witness ==
    /\ pc = "done"
    /\ prior.tag = "Ok"
    /\ prior.set # {}
    /\ result = prior
    /\ data = <<14, 33, 17, 1, 4, 2, 8, 1, 0, 0, 0>>
    /\ Consumed = 6

====
